---- MODULE Spec2Model ----
(***************************************************************************)
(* A model of cosmic-panel's PanelSpace (cosmic-panel-bin/src/space/       *)
(* wrapper_space.rs): the popup set of one panel, the per-seat pointer     *)
(* hover and keyboard focus lists, and the applet exit/restart handler     *)
(* installed by spawn_clients together with the three slot lists it        *)
(* shares with get_scale_factor.                                           *)
(*                                                                         *)
(* Surfaces are pairs <<kind, n>>.  Host-side (client role) surfaces are   *)
(* <<"layer", 0>>, <<"popup", p>> (the host popup created by add_popup for *)
(* embedded popup p) and <<"other", 0>> (a host surface of another space). *)
(* Embedded (server role) surfaces are <<"popup", p>> and <<"window", w>>. *)
(***************************************************************************)
EXTENDS Integers, Sequences, FiniteSets, TLC

\* ------------------------------------------------------------------ bounds
MaxPopups == 2      \* popups an embedded client raises in one run
MaxRestarts == 1    \* exits of one applet in one run

PopupIds == 1..MaxPopups
Windows == {1}          \* panel elements mapped in the internal space
Seats == {"seat0", "seat1"}
PopupSeats == {"seat0"} \* the seats driven while the popup life cycle is explored
NoSeat == "none"
\* pointer positions on the layer surface: over window 1 and over no element
Points == {<<0, 0>>, <<1, 0>>}

NoSurface == <<"none", 0>>
LayerSurface == <<"layer", 0>>
OtherSurface == <<"other", 0>>
PopupSurface(p) == <<"popup", p>>
WindowSurface(w) == <<"window", w>>

\* ------------------------------------------------------------------- state
VARIABLES
    popups,             \* PanelSpace::popups, Vec<WrapperPopup>
    next_popup,         \* the next popup an embedded client will raise
    layer,              \* PanelSpace::layer.is_some()
    positioner_version, \* version of the host xdg_positioner objects
    s_hovered_surface,  \* Vec<ServerPointerFocus>
    s_focused_surface,  \* Vec<(s_WlSurface, seat name)>
    c_hovered_surface,  \* ClientFocus, Vec<(c_WlSurface, seat name)>
    dismissed,          \* history: popups removed by close_popup / evicted
    last_call,          \* history: the last PanelSpace call and its effects
    clients,            \* clients_left / clients_center / clients_right
    lock,               \* the holders of each slot-list mutex
    handler,            \* per applet: its process and the on_exit future
    reader,             \* get_scale_factor in progress on the main thread
    removed,            \* history: applets dropped from their slot list
    panel,              \* "running", or "aborted" once a panic unwound the panel
    config,             \* PanelSpace::config: output selector, layer, minimum size
    output,             \* PanelSpace::output, NoOutput for None
    space_event,        \* PanelSpace::space_event, the state of the layer surface
    dimensions,         \* PanelSpace::dimensions
    is_dirty,           \* PanelSpace::is_dirty
    layer_id,           \* history: the number of layer surfaces created so far
    requested_size,     \* history: the size last passed to set_size
    space_outputs,      \* the outputs mapped into PanelSpace::space
    workspace_groups,   \* SpaceContainer::workspace_groups
    maximized_applied,  \* history: the apply_maximized calls of the last update
    config_list,        \* the names in SpaceContainer::config.config_list
    watchers,           \* per name: the kind of watcher callback installed
    entries_rx,         \* the ConfigUpdate messages in the channel
    watch_log           \* history: the last callback or handler run

popup_vars == <<popups, next_popup, layer, positioner_version,
                s_hovered_surface, s_focused_surface, c_hovered_surface,
                dismissed, last_call>>
applet_vars == <<clients, lock, handler, reader, removed, panel>>
output_vars == <<config, output, space_event, dimensions, is_dirty, layer_id,
                 requested_size, space_outputs>>
workspace_vars == <<workspace_groups, maximized_applied>>
watch_vars == <<config_list, watchers, entries_rx, watch_log>>
vars == <<popups, next_popup, layer, positioner_version,
          s_hovered_surface, s_focused_surface, c_hovered_surface,
          dismissed, last_call,
          clients, lock, handler, reader, removed, panel,
          config, output, space_event, dimensions, is_dirty, layer_id,
          requested_size, space_outputs, workspace_groups, maximized_applied,
          config_list, watchers, entries_rx, watch_log>>

\* ----------------------------------------------------------------- helpers
Range(s) == {s[i] : i \in 1..Len(s)}

\* Iterator::position / find over the tests of the elements: index of the
\* first element whose test is TRUE, 0 if none
Position(tests) ==
    IF \E i \in 1..Len(tests) : tests[i]
    THEN CHOOSE i \in 1..Len(tests) : tests[i] /\ \A j \in 1..(i - 1) : ~tests[j]
    ELSE 0

\* Vec::remove(i): later elements shift left
Remove(s, i) == [j \in 1..(Len(s) - 1) |-> IF j < i THEN s[j] ELSE s[j + 1]]

\* mutant of SwapRemove: the last element is dropped, element i stays
SwapRemoveLast(s, i) == SubSeq(s, 1, Len(s) - 1)

\* Vec::swap_remove(i): the last element takes the place of element i
SwapRemove(s, i) ==
    [j \in 1..(Len(s) - 1) |-> IF j = i THEN s[Len(s)] ELSE s[j]]

\* the record of one PanelSpace call: its name, the popup / host popup it
\* names (0 if none), the seat it names (NoSeat if none), the events and requests
\* it sent as pairs <<kind, popup>>, and what it returned
Call(op, arg, seat, effects, ret) ==
    [op |-> op, arg |-> arg, seat |-> seat, effects |-> effects, ret |-> ret]

Configured(call) == {e[2] : e \in {f \in call.effects : f[1] = "configure"}}

OpenPopups == {popups[i].s_surface : i \in 1..Len(popups)}

\* --------------------------------------------------------------- popup set
\* a fresh WrapperPopup as pushed by add_popup
NewPopup(p) ==
    [s_surface |-> p, c_popup |-> p, state |-> "WaitConfigure",
     rectangle |-> <<0, 0>>, dirty |-> FALSE, has_frame |-> TRUE]

\* the popup list add_popup leaves behind; created = FALSE when creating the
\* host popup or its input region failed (the `?` returns)
\* mutants of PopupsAfterAdd: the new popup is pushed without looking at
\* the list; the early return keeps the open popup
PopupsAfterAddPushOnly(ps, p, created) ==
    IF created THEN Append(ps, NewPopup(p)) ELSE ps

PopupsAfterAddKeepOpen(ps, p, created) ==
    IF ps # <<>> THEN ps
    ELSE IF created THEN Append(ps, NewPopup(p))
    ELSE ps

PopupsAfterAdd(ps, p, created) ==
    IF ps # <<>> THEN <<>>
    ELSE IF created THEN Append(ps, NewPopup(p))
    ELSE ps

add_popup(p, created) ==
    /\ p = next_popup
    /\ p \in PopupIds
    /\ layer
    /\ next_popup' = next_popup + 1
    /\ popups' = PopupsAfterAdd(popups, p, created)
    /\ dismissed' = dismissed \cup (OpenPopups \ {q.s_surface : q \in Range(popups')})
    /\ last_call' = Call("add_popup", p, NoSeat, {},
                         IF popups = <<>> /\ ~created THEN "Err" ELSE "Ok")
    /\ UNCHANGED <<layer, positioner_version, s_hovered_surface,
                   s_focused_surface, c_hovered_surface>>
    /\ UNCHANGED <<applet_vars, output_vars, workspace_vars, watch_vars>>

\* the popups that stay after close_popup for host popup c
PopupsAfterClose(ps, c) == SelectSeq(ps, LAMBDA q : q.c_popup # c)

close_popup(c) ==
    /\ c \in 1..(next_popup - 1)
    /\ popups' = PopupsAfterClose(popups, c)
    /\ dismissed' = dismissed \cup (OpenPopups \ {q.s_surface : q \in Range(popups')})
    /\ last_call' = Call("close_popup", c, NoSeat,
                         {<<"popup_done", q.s_surface>> :
                             q \in {r \in Range(popups) : r.c_popup = c}},
                         "Ok")
    /\ UNCHANGED <<next_popup, layer, positioner_version, s_hovered_surface,
                   s_focused_surface, c_hovered_surface>>
    /\ UNCHANGED <<applet_vars, output_vars, workspace_vars, watch_vars>>

\* mutant of PopupsAfterConfigure: a configure for a popup that is not in the
\* list inserts it again
PopupsAfterConfigureInsert(ps, c) ==
    IF \E q \in Range(ps) : q.c_popup = c THEN ps
    ELSE Append(ps, [NewPopup(c) EXCEPT !.state = "Configured"])

\* the popup list configure_popup leaves behind (the body is empty)
PopupsAfterConfigure(ps, c) == ps

configure_popup(c) ==
    /\ c \in 1..(next_popup - 1)
    /\ popups' = PopupsAfterConfigure(popups, c)
    /\ last_call' = Call("configure_popup", c, NoSeat, {}, "Ok")
    /\ UNCHANGED <<next_popup, layer, positioner_version, s_hovered_surface,
                   s_focused_surface, c_hovered_surface, dismissed>>
    /\ UNCHANGED <<applet_vars, output_vars, workspace_vars, watch_vars>>

\* mutant of RepositionEffects: reposition and repositioned are sent
\* whatever the version of the positioner
RepositionEffectsAnyVersion(ps, p, version, sent) ==
    {<<"pending_geometry", p>>}
    \cup (IF \E q \in Range(ps) : q.s_surface = p
          THEN {<<"host_window_geometry", p>>, <<"host_positioner", p>>,
                <<"host_commit", p>>, <<"host_reposition", p>>,
                <<"repositioned", p>>}
          ELSE {})
    \cup (IF sent THEN {<<"configure", p>>} ELSE {})

\* the events and host requests of reposition_popup(p): the pending
\* geometry is always written; the host requests are made only for a popup
\* found in the list, reposition / repositioned only with a version 3
\* positioner; the trailing popup.send_configure() is outside the lookup.
\* sent = FALSE when smithay refuses the configure (`?` returns the error)
RepositionEffects(ps, p, version, sent) ==
    {<<"pending_geometry", p>>}
    \cup (IF \E q \in Range(ps) : q.s_surface = p
          THEN {<<"host_window_geometry", p>>, <<"host_positioner", p>>,
                <<"host_commit", p>>}
               \cup (IF version >= 3
                     THEN {<<"host_reposition", p>>, <<"repositioned", p>>}
                     ELSE {})
          ELSE {})
    \cup (IF sent THEN {<<"configure", p>>} ELSE {})

reposition_popup(p, sent) ==
    /\ p \in 1..(next_popup - 1)
    /\ last_call' = Call("reposition_popup", p, NoSeat,
                         RepositionEffects(popups, p, positioner_version, sent),
                         IF sent THEN "Ok" ELSE "Err")
    /\ UNCHANGED <<popups, next_popup, layer, positioner_version,
                   s_hovered_surface, s_focused_surface, c_hovered_surface,
                   dismissed>>
    /\ UNCHANGED <<applet_vars, output_vars, workspace_vars, watch_vars>>

\* ------------------------------------------------------------ input focus
\* PanelSpace::close_popups: every open popup is dismissed
PopupsAfterCloseAll(ps) == <<>>

\* mutant of FocusedAfterLeave: the entries of every seat are removed
FocusedAfterLeaveAll(foc, seat) == <<>>

\* the focus list keyboard_leave leaves behind
FocusedAfterLeave(foc, seat) == SelectSeq(foc, LAMBDA f : f[2] # seat)

\* mutant of PopupsAfterLeave: the popups stay open
PopupsAfterLeaveOpen(ps, foc, seat) == ps

\* the popup list keyboard_leave leaves behind: popups are closed when an
\* entry was removed from the focus list
PopupsAfterLeave(ps, foc, seat) ==
    IF Len(foc) # Len(FocusedAfterLeave(foc, seat))
    THEN PopupsAfterCloseAll(ps) ELSE ps

keyboard_leave(seat) ==
    /\ s_focused_surface' = FocusedAfterLeave(s_focused_surface, seat)
    /\ popups' = PopupsAfterLeave(popups, s_focused_surface, seat)
    /\ dismissed' = dismissed \cup (OpenPopups \ {q.s_surface : q \in Range(popups')})
    /\ last_call' = Call("keyboard_leave", 0, seat, {}, "Ok")
    /\ UNCHANGED <<next_popup, layer, positioner_version, s_hovered_surface,
                   c_hovered_surface>>
    /\ UNCHANGED <<applet_vars, output_vars, workspace_vars, watch_vars>>

pointer_leave(seat) ==
    /\ s_hovered_surface' = SelectSeq(s_hovered_surface, LAMBDA h : h.seat_name # seat)
    /\ last_call' = Call("pointer_leave", 0, seat, {}, "Ok")
    /\ UNCHANGED <<popups, next_popup, layer, positioner_version,
                   s_focused_surface, c_hovered_surface, dismissed>>
    /\ UNCHANGED <<applet_vars, output_vars, workspace_vars, watch_vars>>

\* the host surface the seat hovers according to c_hovered_surface
ClientHover(chov, seat) ==
    LET i == Position([k \in 1..Len(chov) |-> chov[k][2] = seat])
    IN  IF i = 0 THEN NoSurface ELSE chov[i][1]

\* the surface handle_press forwards the press to
PressTarget(hov, seat) ==
    LET i == Position([k \in 1..Len(hov) |-> hov[k].seat_name = seat])
    IN  IF i = 0 THEN NoSurface ELSE hov[i].surface

\* mutant of PressReturn: the embedded surface hovered by the seat is
\* returned whether or not the seat hovers a host surface
PressReturnHovered(chov, hov, seat) == PressTarget(hov, seat)

\* what handle_press returns: the embedded surface hovered by the seat when
\* the seat hovers a host surface, None otherwise
PressReturn(chov, hov, seat) ==
    IF ClientHover(chov, seat) # NoSurface THEN PressTarget(hov, seat)
    ELSE NoSurface

\* mutant of PopupsAfterPress: the popups are closed whatever host surface
\* the seat hovers
PopupsAfterPressAnySurface(ps, foc, chov, has_layer, seat) ==
    IF ClientHover(chov, seat) # NoSurface
    THEN PopupsAfterCloseAll(ps)
    ELSE PopupsAfterLeave(ps, foc, seat)

\* the popup list handle_press leaves behind
PopupsAfterPress(ps, foc, chov, has_layer, seat) ==
    IF ClientHover(chov, seat) # NoSurface
    THEN IF has_layer /\ ClientHover(chov, seat) = LayerSurface /\ ps # <<>>
         THEN PopupsAfterCloseAll(ps) ELSE ps
    ELSE PopupsAfterLeave(ps, foc, seat)

handle_press(seat) ==
    /\ popups' = PopupsAfterPress(popups, s_focused_surface, c_hovered_surface,
                                  layer, seat)
    /\ s_focused_surface' =
           IF ClientHover(c_hovered_surface, seat) # NoSurface
           THEN s_focused_surface
           ELSE FocusedAfterLeave(s_focused_surface, seat)
    /\ dismissed' = dismissed \cup (OpenPopups \ {q.s_surface : q \in Range(popups')})
    /\ last_call' = Call("handle_press", 0, seat, {},
                         PressReturn(c_hovered_surface, s_hovered_surface, seat))
    /\ UNCHANGED <<next_popup, layer, positioner_version, s_hovered_surface,
                   c_hovered_surface>>
    /\ UNCHANGED <<applet_vars, output_vars, workspace_vars, watch_vars>>

\* the panel element at a point of the internal space: window w covers the
\* unit square at <<w - 1, 0>>; 0 when no element is under the point
ElementUnder(pt) == IF pt[2] = 0 /\ (pt[1] + 1) \in Windows THEN pt[1] + 1 ELSE 0
ElementLoc(w) == <<w - 1, 0>>

\* geometry origin of an embedded popup (its xdg window geometry)
PopupGeoLoc(p) == <<p, 0>>

\* mutant of Sub: the geometry origin is not subtracted
SubNothing(a, b) == a

Sub(a, b) == <<a[1] - b[1], a[2] - b[2]>>

Hover(surface, seat, c_pos, s_pos) ==
    [surface |-> surface, seat_name |-> seat, c_pos |-> c_pos, s_pos |-> s_pos]

\* what update_pointer returns for None
NoFocus == Hover(NoSurface, NoSeat, <<0, 0>>, <<0, 0>>)

\* set or push the keyboard focus entry of a seat
FocusedWith(foc, seat, surface) ==
    LET i == Position([k \in 1..Len(foc) |-> foc[k][2] = seat])
    IN  IF i = 0 THEN Append(foc, <<surface, seat>>)
        ELSE [foc EXCEPT ![i] = <<surface, seat>>]

\* mutant of HoveredWith: the entry is pushed without looking for an entry
\* of the seat
HoveredWithPush(hov, entry) == Append(hov, entry)

\* set or push the pointer hover entry of a seat
HoveredWith(hov, entry) ==
    LET i == Position([k \in 1..Len(hov) |-> hov[k].seat_name = entry.seat_name])
    IN  IF i = 0 THEN Append(hov, entry) ELSE [hov EXCEPT ![i] = entry]

\* update_pointer as a function of the state it reads: the new hover list,
\* the new focus list and the returned focus (NoFocus for None)
UpdatePointer(ps, hov, foc, has_layer, pt, seat, c_surface) ==
    LET prev_hover == Position([k \in 1..Len(hov) |-> hov[k].seat_name = seat])
        pi == Position([k \in 1..Len(ps) |-> PopupSurface(ps[k].c_popup) = c_surface])
    IN  IF pi # 0
        THEN LET q == ps[pi]
                 e == Hover(PopupSurface(q.s_surface), seat, q.rectangle,
                            Sub(q.rectangle, PopupGeoLoc(q.s_surface)))
             IN  [hov |-> HoveredWith(hov, e),
                  foc |-> FocusedWith(foc, seat, PopupSurface(q.s_surface)),
                  ret |-> e]
        ELSE IF ~has_layer \/ LayerSurface # c_surface
        THEN [hov |-> IF prev_hover # 0
                         /\ \E w \in Windows :
                                WindowSurface(w) = hov[prev_hover].surface
                      THEN Remove(hov, prev_hover) ELSE hov,
              foc |-> foc,
              ret |-> NoFocus]
        ELSE IF ElementUnder(pt) # 0
        THEN LET w == ElementUnder(pt)
                 e == Hover(WindowSurface(w), seat, ElementLoc(w), ElementLoc(w))
             IN  [hov |-> HoveredWith(hov, e),
                  foc |-> FocusedWith(foc, seat, WindowSurface(w)),
                  ret |-> e]
        ELSE [hov |-> IF prev_hover # 0 THEN SwapRemove(hov, prev_hover) ELSE hov,
              foc |-> foc,
              ret |-> NoFocus]

\* the host surfaces a pointer event can name
HostSurfaces == {LayerSurface, OtherSurface} \cup {PopupSurface(p) : p \in PopupIds}

update_pointer(pt, seat, c_surface) ==
    LET r == UpdatePointer(popups, s_hovered_surface, s_focused_surface, layer,
                           pt, seat, c_surface)
    IN  /\ c_surface[1] = "popup" => c_surface[2] < next_popup
        /\ s_hovered_surface' = r.hov
        /\ s_focused_surface' = r.foc
        /\ last_call' = Call("update_pointer", c_surface, seat, {}, r.ret)
        /\ UNCHANGED <<popups, next_popup, layer, positioner_version,
                       c_hovered_surface, dismissed>>
        /\ UNCHANGED <<applet_vars, output_vars, workspace_vars, watch_vars>>

\* pointer_enter forwards to update_pointer
pointer_enter(pt, seat, c_surface) ==
    LET r == UpdatePointer(popups, s_hovered_surface, s_focused_surface, layer,
                           pt, seat, c_surface)
    IN  /\ c_surface[1] = "popup" => c_surface[2] < next_popup
        /\ s_hovered_surface' = r.hov
        /\ s_focused_surface' = r.foc
        /\ last_call' = Call("update_pointer", c_surface, seat, {}, r.ret)
        /\ UNCHANGED <<popups, next_popup, layer, positioner_version,
                       c_hovered_surface, dismissed>>
        /\ UNCHANGED <<applet_vars, output_vars, workspace_vars, watch_vars>>

\* the host pointer handler records the hovered host surface of a seat in
\* c_hovered_surface on enter and drops it on leave (c_surface = NoSurface);
\* handle_press only compares the entry with the layer surface, so a host
\* popup hovered by the seat is an OtherSurface here
client_hover(seat, c_surface) ==
    LET i == Position([k \in 1..Len(c_hovered_surface) |-> c_hovered_surface[k][2] = seat])
    IN  /\ c_hovered_surface' =
               IF c_surface = NoSurface
               THEN IF i = 0 THEN c_hovered_surface
                    ELSE SwapRemove(c_hovered_surface, i)
               ELSE IF i = 0 THEN Append(c_hovered_surface, <<c_surface, seat>>)
               ELSE [c_hovered_surface EXCEPT ![i] = <<c_surface, seat>>]
        /\ c_hovered_surface' # c_hovered_surface
        /\ UNCHANGED <<popups, next_popup, layer, positioner_version,
                       s_hovered_surface, s_focused_surface, dismissed, last_call>>
        /\ UNCHANGED <<applet_vars, output_vars, workspace_vars, watch_vars>>

\* ------------------------------------------------------- applet records
Lists == {"left", "center", "right"}

\* the configured plugin lists: plugins_left, plugins_center, plugins_right
Plugins == [left |-> <<"app">>, center |-> <<"notif">>, right |-> <<>>]
Applets == UNION {Range(Plugins[l]) : l \in Lists}
ListOf(a) == CHOOSE l \in Lists : a \in Range(Plugins[l])

\* the desktop entries: X-NotificationsApplet and X-HostWaylandDisplay
IsNotificationApplet(a) == a = "notif"
RequestsWaylandDisplay(a) == a = "app"

\* the client get_client_sock inserts for applet a at its k-th start, and
\* the security context of that start (listener = FALSE for None)
Client(a, k) == <<a, k>>
NoClient == <<"none", 0>>
Context(a, k, listener) == [of |-> Client(a, k), listener |-> listener]

\* one slot-list entry (id, client, socket, security context)
Record(id, client, socket, ctx) ==
    [id |-> id, client |-> client, socket |-> socket, ctx |-> ctx]

\* spawn and launches are history fields: what spawn_clients met for the
\* applet, and the number of launch messages sent for it
Idle(pc) == [pc |-> pc, restarting |-> FALSE, c |-> NoClient,
             ctx |-> [of |-> NoClient, listener |-> FALSE],
             trace |-> <<>>, exits |-> 0, spawn |-> "none", launches |-> 0]

\* mutant of CanLock: a restart that waits for its one-shot answer keeps
\* the lists from being locked
CanLockNoneWaiting(l) ==
    lock[l] = {} /\ \A a \in Applets : handler[a].pc # "await_fd"

\* Mutex::lock returns once nobody holds the mutex
CanLock(l) == lock[l] = {}

\* mutant of Released: the guard is kept when the `if let` ends
ReleasedKept(holders, a) == holders

\* the holders of a list mutex once the guard of handler a is dropped
Released(holders, a) == holders \ {a}

\* what spawn_clients meets for the desktop file of one applet: the file
\* cannot be read or decoded or has no Exec key; the Exec line holds
\* no word; the launch message cannot be sent; the launch message is sent
SpawnOutcomes ==
    {"launched", "undecodable", "empty_exec", "send_failed"}

\* the most desktop files the search paths hold for the applets
MaxFiles == 3

\* the desktop files met by the iteration over the search paths, each named
\* by the applet whose identifier its file stem is: a file can be missing,
\* and several directories can hold a file of the same name
Orders == UNION {[1..n -> Applets] : n \in 0..MaxFiles}

IndexIn(order, a) == Position([k \in 1..Len(order) |-> order[k] = a])

\* index in `order` of the applet at which spawn_clients panics, 0 if none:
\* .expect("exec parameter must contain at least on word") on an Exec line
\* without a word
PanicAt(outcome, order) ==
    Position([k \in 1..Len(order) |-> outcome[order[k]] = "empty_exec"])

\* the loop reaches a desktop file of applet a
Reached(a, outcome, order) ==
    /\ IndexIn(order, a) # 0
    /\ PanicAt(outcome, order) = 0 \/ IndexIn(order, a) <= PanicAt(outcome, order)

\* mutant of DesktopIdsAfter: the identifier stays in desktop_ids
DesktopIdsKept(ids, a) == ids

\* desktop_ids.remove(position): each applet is started at most once
DesktopIdsAfter(ids, a) == ids \ {a}

\* the number of launch messages the loop over the desktop files sends for
\* applet a, with `ids` the identifiers still in desktop_ids
RECURSIVE LaunchesIn(_, _, _, _)
LaunchesIn(files, ids, outcome, a) ==
    IF files = <<>> THEN 0
    ELSE IF Head(files) \notin ids
    THEN LaunchesIn(Tail(files), ids, outcome, a)
    ELSE IF outcome[Head(files)] = "empty_exec" THEN 0
    ELSE (IF Head(files) = a /\ outcome[a] = "launched" THEN 1 ELSE 0)
         + LaunchesIn(Tail(files), DesktopIdsAfter(ids, Head(files)), outcome, a)

\* the launch message of applet a is sent
Launched(a, outcome, order) == LaunchesIn(order, Applets, outcome, a) > 0

\* what spawn_clients returns: bail!("Clients have already been spawned!")
\* unless the three lists are empty
SpawnResult(cl) == IF \A l \in Lists : cl[l] = <<>> THEN "Ok" ELSE "Err"

\* spawn_clients with the three guards held from entry to return: the lists
\* are filled from the configuration, and every applet whose desktop file is
\* found has its socket taken and, unless something fails, its launch
\* message sent (outcome[a] tells what happens to applet a; listener[a]
\* whether create_listener succeeds; order is the order of the desktop
\* files).  With a list already filled the call fails and changes nothing.
SpawnClients(outcome, listener, order) ==
    /\ panel = "running"
    /\ reader.pc = "idle"
    /\ removed = {}
    /\ \A l \in Lists : CanLock(l)
    /\ IF \A l \in Lists : clients[l] = <<>>
       THEN /\ clients' =
                  [l \in Lists |->
                      [i \in 1..Len(Plugins[l]) |->
                          LET id == Plugins[l][i]
                          IN  Record(id, Client(id, 0),
                                     ~Reached(id, outcome, order),
                                     Context(id, 0,
                                             /\ Reached(id, outcome, order)
                                             /\ outcome[id] \in {"launched", "send_failed"}
                                             /\ RequestsWaylandDisplay(id)
                                             /\ listener[id]))]]
            /\ handler' = [a \in Applets |->
                              [Idle(IF Launched(a, outcome, order) THEN "running"
                                    ELSE "not_launched")
                               EXCEPT !.spawn = IF IndexIn(order, a) = 0
                                                THEN "no_desktop_file"
                                                ELSE outcome[a],
                                      !.launches = LaunchesIn(order, Applets, outcome, a)]]
            /\ panel' = IF PanicAt(outcome, order) # 0 THEN "aborted" ELSE "running"
       ELSE UNCHANGED <<clients, handler, panel>>
    /\ UNCHANGED <<lock, reader, removed>>

spawn_clients(outcome, listener, order) ==
    /\ SpawnClients(outcome, listener, order)
    /\ last_call' = Call("spawn_clients", 0, NoSeat, {}, SpawnResult(clients))
    /\ UNCHANGED <<popups, next_popup, layer, positioner_version,
                   s_hovered_surface, s_focused_surface, c_hovered_surface,
                   dismissed>>
    /\ UNCHANGED <<output_vars, workspace_vars, watch_vars>>

\* the process of applet a exits: the on_exit closure runs up to the future
\* it returns; a new client is inserted into the display and, for an applet
\* with X-HostWaylandDisplay, a new security-context listener is created
on_exit(a, is_restarting, listener) ==
    /\ panel = "running"
    /\ handler[a].pc = "running"
    /\ handler[a].exits < MaxRestarts
    /\ handler' = [handler EXCEPT ![a] =
           [pc |-> "start", restarting |-> is_restarting,
            c |-> Client(a, handler[a].exits + 1),
            ctx |-> Context(a, handler[a].exits + 1,
                            RequestsWaylandDisplay(a) /\ listener),
            trace |-> <<>>, exits |-> handler[a].exits + 1,
            spawn |-> handler[a].spawn, launches |-> handler[a].launches]]
    /\ UNCHANGED <<clients, lock, reader, removed, panel>>
    /\ UNCHANGED <<popup_vars, output_vars, workspace_vars, watch_vars>>

\* one step of the future: to pc `to`, logging `events`
Step(a, to, events) ==
    handler' = [handler EXCEPT ![a].pc = to, ![a].trace = @ \o events]

\* mutant of AfterExitCheck: the `if !is_restarting` return is missing
AfterExitCheckNoReturn(a, is_restarting) ==
    IF IsNotificationApplet(a) THEN "need_fd" ELSE "fds"

\* where the future goes from its start: `if !is_restarting { return; }`
\* leaves the process stopped, a restart goes on to the one-shot request
\* (notifications applet) or to update_process_fds
AfterExitCheck(a, is_restarting) ==
    IF ~is_restarting THEN "stopped"
    ELSE IF IsNotificationApplet(a) THEN "need_fd" ELSE "fds"

\* mutant of AfterFailure: the future goes on to the swap
AfterFailureGoesOn == "lock"

\* where the future goes when the one-shot answer or an update before the
\* swap fails: it returns, and the process manager starts the process again
AfterFailure == "running"

exit_start(a) ==
    /\ handler[a].pc = "start"
    /\ Step(a, AfterExitCheck(a, handler[a].restarting), <<>>)
    /\ UNCHANGED <<clients, lock, reader, removed, panel>>
    /\ UNCHANGED <<popup_vars, output_vars, workspace_vars, watch_vars>>

\* applet_tx.send(NeedNewNotificationFd(tx)).await
exit_need_fd(a) ==
    /\ handler[a].pc = "need_fd"
    /\ Step(a, "await_fd", <<"NeedNewNotificationFd">>)
    /\ UNCHANGED <<clients, lock, reader, removed, panel>>
    /\ UNCHANGED <<popup_vars, output_vars, workspace_vars, watch_vars>>

\* rx.await: the one-shot answers with a handle, or its sender is dropped;
\* a future that returns early leaves the record alone, the process manager
\* starts the process again
exit_await_fd(a, ok) ==
    /\ handler[a].pc = "await_fd"
    /\ IF ok THEN Step(a, "env_notif", <<>>) ELSE Step(a, AfterFailure, <<>>)
    /\ UNCHANGED <<clients, lock, reader, removed, panel>>
    /\ UNCHANGED <<popup_vars, output_vars, workspace_vars, watch_vars>>

\* pman.update_process_env(COSMIC_NOTIFICATIONS).await
exit_env_notif(a, ok) ==
    /\ handler[a].pc = "env_notif"
    /\ IF ok THEN Step(a, "fds", <<"update_process_env(COSMIC_NOTIFICATIONS)">>)
       ELSE Step(a, AfterFailure, <<>>)
    /\ UNCHANGED <<clients, lock, reader, removed, panel>>
    /\ UNCHANGED <<popup_vars, output_vars, workspace_vars, watch_vars>>

\* pman.update_process_fds(..).await
exit_fds(a, ok) ==
    /\ handler[a].pc = "fds"
    /\ IF ok THEN Step(a, "lock", <<"update_process_fds">>)
       ELSE Step(a, AfterFailure, <<>>)
    /\ UNCHANGED <<clients, lock, reader, removed, panel>>
    /\ UNCHANGED <<popup_vars, output_vars, workspace_vars, watch_vars>>

\* my_list.lock().unwrap()
\* the list mutexes whose guard party x holds
HeldBy(x) == {l \in Lists : x \in lock[l]}

\* mutant of HandlerLocks: the future locks the left list, then the center one
HandlerLocksNested(a) == <<"left", "center">>

\* the mutexes the future of applet a locks, in order: `my_list.lock()`, the
\* one list the closure captured
HandlerLocks(a) == <<ListOf(a)>>

\* the next mutex of the future of applet a
NextLock(a) == HandlerLocks(a)[Cardinality(HeldBy(a)) + 1]

exit_lock(a) ==
    /\ handler[a].pc = "lock"
    /\ CanLock(NextLock(a))
    /\ lock' = [lock EXCEPT ![NextLock(a)] = @ \cup {a}]
    /\ Step(a, IF Cardinality(HeldBy(a)) + 1 = Len(HandlerLocks(a))
               THEN "find" ELSE "lock", <<>>)
    /\ UNCHANGED <<clients, reader, removed, panel>>
    /\ UNCHANGED <<popup_vars, output_vars, workspace_vars, watch_vars>>

\* index of the record .find(|(id, ..)| id == &id_clone) yields, 0 if none
FindRecord(list, id) == Position([k \in 1..Len(list) |-> list[k].id = id])

\* mutant of HoldersInSwap: the guard is dropped after the first assignment
HoldersInSwapDropped(holders, a) == holders \ {a}

\* the holders of the list mutex between the two assignments of the swap:
\* one guard covers the whole `if let` block
HoldersInSwap(holders, a) == holders

\* mutant of WithClient: the record keeps its client
WithClientKept(r, c) == r

\* `old_client.1 = c`
WithClient(r, c) == [r EXCEPT !.client = c]

\* `old_client.3 = security_context`
WithContext(r, ctx) == [r EXCEPT !.ctx = ctx]

\* where the future goes after a failed lookup
AfterLookupFailure == "send_pair"

\* the lookup, and `old_client.1 = c` when it finds the record; when it finds
\* none the guard is dropped at the end of the `if let`
exit_find(a) ==
    LET l == ListOf(a)
        i == FindRecord(clients[l], a)
    IN  /\ handler[a].pc = "find"
        /\ IF i # 0
           THEN /\ clients' = [clients EXCEPT ![l][i] = WithClient(@, handler[a].c)]
                /\ lock' = [lock EXCEPT ![l] = HoldersInSwap(@, a)]
                /\ Step(a, "write_ctx", <<"swap">>)
           ELSE /\ lock' = [lock EXCEPT ![l] = Released(@, a)]
                /\ Step(a, AfterLookupFailure, <<"lookup_failed">>)
                /\ UNCHANGED clients
        /\ UNCHANGED <<reader, removed, panel>>
        /\ UNCHANGED <<popup_vars, output_vars, workspace_vars, watch_vars>>

\* `old_client.3 = security_context`, then the guard is dropped
exit_write_ctx(a) ==
    LET l == ListOf(a)
        i == FindRecord(clients[l], a)
    IN  /\ handler[a].pc = "write_ctx"
        /\ clients' = IF i = 0 THEN clients
                      ELSE [clients EXCEPT ![l][i] = WithContext(@, handler[a].ctx)]
        /\ lock' = [lock EXCEPT ![l] = Released(@, a)]
        /\ Step(a, "send_pair", <<>>)
        /\ UNCHANGED <<reader, removed, panel>>
        /\ UNCHANGED <<popup_vars, output_vars, workspace_vars, watch_vars>>

\* applet_tx.send(ClientSocketPair(client_id_clone)).await
exit_send_pair(a) ==
    /\ handler[a].pc = "send_pair"
    /\ Step(a, "env_socket", <<"ClientSocketPair">>)
    /\ UNCHANGED <<clients, lock, reader, removed, panel>>
    /\ UNCHANGED <<popup_vars, output_vars, workspace_vars, watch_vars>>

\* pman.update_process_env(WAYLAND_SOCKET).await, its result dropped; the
\* future is done and the process manager starts the process again
exit_env_socket(a) ==
    /\ handler[a].pc = "env_socket"
    /\ Step(a, "running", <<"update_process_env(WAYLAND_SOCKET)">>)
    /\ UNCHANGED <<clients, lock, reader, removed, panel>>
    /\ UNCHANGED <<popup_vars, output_vars, workspace_vars, watch_vars>>

\* the next step of the on_exit future of applet a
exit_step(a) ==
    \/ exit_start(a)
    \/ exit_need_fd(a)
    \/ \E ok \in BOOLEAN : exit_await_fd(a, ok)
    \/ \E ok \in BOOLEAN : exit_env_notif(a, ok)
    \/ \E ok \in BOOLEAN : exit_fds(a, ok)
    \/ exit_lock(a)
    \/ exit_find(a)
    \/ exit_write_ctx(a)
    \/ exit_send_pair(a)
    \/ exit_env_socket(a)

\* the applet is dropped from the configuration and its record from its list
remove_applet(a) ==
    LET l == ListOf(a)
        i == FindRecord(clients[l], a)
    IN  /\ panel = "running"
        /\ reader.pc = "idle"
        /\ CanLock(l)
        /\ i # 0
        /\ handler[a].pc \notin {"running", "not_launched"}
        /\ clients' = [clients EXCEPT ![l] = Remove(@, i)]
        /\ removed' = removed \cup {a}
        /\ UNCHANGED <<lock, handler, reader, panel>>
        /\ UNCHANGED <<popup_vars, output_vars, workspace_vars, watch_vars>>

\* the clients a caller of get_scale_factor can ask about
KnownClients ==
    {Client(a, k) : a \in Applets, k \in 0..MaxRestarts} \cup {NoClient}

\* the value get_scale_factor computes with the three guards held
ScaleFactor(cl, client) ==
    IF \E l \in Lists : \E r \in Range(cl[l]) : r.client = client
    THEN "Some(scale)" ELSE "None"

\* the order in which get_scale_factor takes the three mutexes
ReaderOrder == <<"center", "left", "right">>

\* get_scale_factor is called for a surface of `client`
reader_call(client) ==
    /\ panel = "running"
    /\ reader.pc = "idle"
    /\ client # NoClient => /\ handler[client[1]].pc # "unspawned"
                            /\ client[2] <= handler[client[1]].exits
    /\ reader' = [pc |-> "locking", held |-> 0, client |-> client,
                  result |-> "None"]
    /\ UNCHANGED <<clients, lock, handler, removed, panel>>
    /\ UNCHANGED <<popup_vars, output_vars, workspace_vars, watch_vars>>

reader_lock ==
    /\ reader.pc = "locking"
    /\ reader.held < Len(ReaderOrder)
    /\ CanLock(ReaderOrder[reader.held + 1])
    /\ lock' = [lock EXCEPT ![ReaderOrder[reader.held + 1]] = @ \cup {"main"}]
    /\ reader' = [reader EXCEPT !.held = @ + 1]
    /\ UNCHANGED <<clients, handler, removed, panel>>
    /\ UNCHANGED <<popup_vars, output_vars, workspace_vars, watch_vars>>

\* the chained iterators are searched and the guards dropped
reader_return ==
    /\ reader.pc = "locking"
    /\ reader.held = Len(ReaderOrder)
    /\ reader' = [reader EXCEPT !.pc = "idle", !.held = 0,
                                !.result = ScaleFactor(clients, reader.client)]
    /\ lock' = [l \in Lists |-> lock[l] \ {"main"}]
    /\ UNCHANGED <<clients, handler, removed, panel>>
    /\ UNCHANGED <<popup_vars, output_vars, workspace_vars, watch_vars>>

\* the order in which spawn_clients takes the three mutexes
SpawnOrder == <<"left", "center", "right">>

\* spawn_clients is called again on the main thread, the lists being filled
spawn_call ==
    /\ panel = "running"
    /\ reader.pc = "idle"
    /\ \E l \in Lists : clients[l] # <<>>
    /\ reader' = [reader EXCEPT !.pc = "spawning", !.held = 0]
    /\ UNCHANGED <<clients, lock, handler, removed, panel>>
    /\ UNCHANGED <<popup_vars, output_vars, workspace_vars, watch_vars>>

\* `self.clients_left.lock()`, `.clients_center.lock()`, `.clients_right.lock()`
spawn_lock ==
    /\ reader.pc = "spawning"
    /\ reader.held < Len(SpawnOrder)
    /\ CanLock(SpawnOrder[reader.held + 1])
    /\ lock' = [lock EXCEPT ![SpawnOrder[reader.held + 1]] = @ \cup {"main"}]
    /\ reader' = [reader EXCEPT !.held = @ + 1]
    /\ UNCHANGED <<clients, handler, removed, panel>>
    /\ UNCHANGED <<popup_vars, output_vars, workspace_vars, watch_vars>>

\* a list is filled: bail!("Clients have already been spawned!"), the three
\* guards are dropped
spawn_bail ==
    /\ reader.pc = "spawning"
    /\ reader.held = Len(SpawnOrder)
    /\ \E l \in Lists : clients[l] # <<>>
    /\ reader' = [reader EXCEPT !.pc = "idle", !.held = 0]
    /\ lock' = [l \in Lists |-> lock[l] \ {"main"}]
    /\ last_call' = Call("spawn_clients", 0, NoSeat, {}, SpawnResult(clients))
    /\ UNCHANGED <<clients, handler, removed, panel>>
    /\ UNCHANGED <<popups, next_popup, layer, positioner_version,
                   s_hovered_surface, s_focused_surface, c_hovered_surface,
                   dismissed>>
    /\ UNCHANGED <<output_vars, workspace_vars, watch_vars>>

\* -------------------------------------------------------------- workspaces
NoGroups == {}

\* SpaceContainer::outputs, in the order of the list, and an output the
\* container does not know
KnownOutputs == <<"eDP-1", "HDMI-1">>
GroupOutputs == Range(KnownOutputs) \cup {"DP-9"}

\* a snapshot of the workspace groups: for a group, the output it is on and
\* whether one of its workspaces holds a maximized toplevel
Snapshots == SUBSET [output : GroupOutputs, maximized : BOOLEAN]

\* SpaceContainer::maximized_outputs: the outputs with a workspace that
\* holds a maximized toplevel
MaximizedOutputs(groups) == {g.output : g \in {h \in groups : h.maximized}}

\* mutant of AppliedOutputs: apply_maximized is called for every output
\* that is maximized after the replacement
AppliedOutputsMaximized(outs, pre, post) == SelectSeq(outs, LAMBDA o : o \in post)

\* the apply_maximized calls of update, in order: one for every known
\* output that is in exactly one of the two sets
AppliedOutputs(outs, pre, post) ==
    SelectSeq(outs, LAMBDA o : (o \in pre) # (o \in post))

\* WorkspaceHandlerSpace::update of the container
update(groups) ==
    /\ panel = "running"
    /\ workspace_groups' = groups
    /\ maximized_applied' = AppliedOutputs(KnownOutputs,
                                           MaximizedOutputs(workspace_groups),
                                           MaximizedOutputs(groups))
    /\ UNCHANGED <<popup_vars, applet_vars, output_vars, watch_vars>>

\* ------------------------------------------------------ output binding
\* the outputs the host can offer, and None
Outputs == {"eDP-1", "HDMI-1"}
NoOutput == "none"

\* the configurations of a panel: the output selector (Active or the name
\* of an output), whether the configured layer is one of Background, Bottom,
\* Top and Overlay, and the smallest size the panel takes
Configs ==
    [output : {"Active", "eDP-1"}, layer_valid : BOOLEAN,
     min : {<<1, 1>>, <<32, 30>>}]

Max(a, b) == IF a >= b THEN a ELSE b

\* PanelSpace::constrain_dim: the size is raised to the configured minimum
ConstrainDim(size, cfg) == <<Max(size[1], cfg.min[1]), Max(size[2], cfg.min[2])>>

\* the states of the layer surface held in space_event
NoEvent == [kind |-> "None", first |-> FALSE, width |-> 0, height |-> 0]

\* mutant of WaitConfigure: the event is not marked as the first one
WaitConfigureLater(first, size) ==
    [kind |-> "WaitConfigure", first |-> FALSE, width |-> size[1], height |-> size[2]]

\* SpaceEvent::WaitConfigure { first, width, height }
WaitConfigure(first, size) ==
    [kind |-> "WaitConfigure", first |-> first, width |-> size[1], height |-> size[2]]

\* mutant of NewOutputError: the configured layer is not looked at
NewOutputErrorAnyLayer(cfg, out, c_output, region_ok) ==
    IF out # NoOutput THEN "output already setup for this panel"
    ELSE IF c_output # NoOutput /\ cfg.output # c_output
    THEN "output does not match config"
    ELSE IF c_output = NoOutput /\ cfg.output # "Active"
    THEN "output does not match config"
    ELSE IF ~region_ok THEN "Region"
    ELSE ""

\* why new_output fails, "" when it goes through: the panel has an output;
\* an output is offered to a panel configured for the active output or for
\* another name; no output is offered to a panel configured for a name; the
\* configured layer is invalid; the input region cannot be created
NewOutputError(cfg, out, c_output, region_ok) ==
    IF out # NoOutput THEN "output already setup for this panel"
    ELSE IF c_output # NoOutput /\ cfg.output # c_output
    THEN "output does not match config"
    ELSE IF c_output = NoOutput /\ cfg.output # "Active"
    THEN "output does not match config"
    ELSE IF ~cfg.layer_valid THEN "Invalid layer"
    ELSE IF ~region_ok THEN "Region"
    ELSE ""

\* a cap on the layer surfaces created in one behaviour
MaxLayers == 2

\* new_output for the offered output (NoOutput when none is passed);
\* region_ok = FALSE when Region::new fails. An offered output is mapped
\* into the space before the configuration is looked at. On success the
\* layer surface is created and committed, the panel fields are set and
\* spawn_clients is called, its error only logged.
new_output(c_output, region_ok, outcome, listener, order) ==
    LET err == NewOutputError(config, output, c_output, region_ok)
        size == ConstrainDim(<<0, 0>>, config)
    IN  /\ panel = "running"
        /\ space_outputs' = IF output = NoOutput /\ c_output # NoOutput
                            THEN space_outputs \cup {c_output} ELSE space_outputs
        /\ last_call' = Call("new_output", c_output, NoSeat, {},
                             IF err = "" THEN "Ok" ELSE "Err")
        /\ IF err # ""
           THEN /\ UNCHANGED <<layer, output, space_event, dimensions, is_dirty,
                               layer_id, requested_size>>
                /\ UNCHANGED applet_vars
           ELSE /\ layer_id < MaxLayers
                /\ layer_id' = layer_id + 1
                /\ requested_size' = size
                /\ output' = c_output
                /\ layer' = TRUE
                /\ dimensions' = size
                /\ space_event' = WaitConfigure(TRUE, size)
                /\ is_dirty' = TRUE
                /\ SpawnClients(outcome, listener, order)
        /\ UNCHANGED <<popups, next_popup, positioner_version, s_hovered_surface,
                       s_focused_surface, c_hovered_surface, dismissed, config>>
        /\ UNCHANGED <<workspace_vars, watch_vars>>

\* update_output: the binding is replaced and the size constrained again
update_output(c_output) ==
    /\ panel = "running"
    /\ output' = c_output
    /\ dimensions' = ConstrainDim(dimensions, config)
    /\ is_dirty' = TRUE
    /\ last_call' = Call("update_output", c_output, NoSeat, {}, "Ok")
    /\ UNCHANGED <<popups, next_popup, layer, positioner_version,
                   s_hovered_surface, s_focused_surface, c_hovered_surface,
                   dismissed>>
    /\ UNCHANGED <<config, space_event, layer_id, requested_size, space_outputs>>
    /\ UNCHANGED <<applet_vars, workspace_vars, watch_vars>>

\* WrapperSpace::configure_layer and close_layer of PanelSpace have empty
\* bodies: the host events are handled by the panel's own configure method
\* and by the container
configure_layer(w, h) ==
    /\ panel = "running"
    /\ layer
    /\ last_call' = Call("configure_layer", <<w, h>>, NoSeat, {}, "Ok")
    /\ UNCHANGED <<popups, next_popup, layer, positioner_version,
                   s_hovered_surface, s_focused_surface, c_hovered_surface,
                   dismissed>>
    /\ UNCHANGED <<applet_vars, output_vars, workspace_vars, watch_vars>>

close_layer ==
    /\ panel = "running"
    /\ layer
    /\ last_call' = Call("close_layer", 0, NoSeat, {}, "Ok")
    /\ UNCHANGED <<popups, next_popup, layer, positioner_version,
                   s_hovered_surface, s_focused_surface, c_hovered_surface,
                   dismissed>>
    /\ UNCHANGED <<applet_vars, output_vars, workspace_vars, watch_vars>>

\* the widths and heights of host configure events
ConfigureWidths == {0, 32, 42}
ConfigureHeights == {0, 30, 42}

\* mutant of Negotiated: the dimension of the event replaces the held one
NegotiatedReplaced(held, dim) == dim

\* one axis of a host configure: 0 keeps the held value, another value
\* replaces it
Negotiated(held, dim) == IF dim = 0 THEN held ELSE dim

\* mutant of AfterConfigure: a closed surface is configured again
AfterConfigureQuit(ev, w, h) ==
    IF ev.kind = "None" THEN ev
    ELSE [kind |-> "Configured", first |-> FALSE,
          width |-> Negotiated(ev.width, w), height |-> Negotiated(ev.height, h)]

\* the state of the layer surface after a host configure: WaitConfigure and
\* Configured go to Configured, the first configure keeps the first flag;
\* Quit is terminal
AfterConfigure(ev, w, h) ==
    IF ev.kind \in {"None", "Quit"} THEN ev
    ELSE [kind |-> "Configured", first |-> ev.kind = "WaitConfigure" /\ ev.first,
          width |-> Negotiated(ev.width, w), height |-> Negotiated(ev.height, h)]

\* the state of the layer surface after the host closed it
AfterClosed(ev) == [ev EXCEPT !.kind = "Quit"]

\* the panel's handling of a host configure of its layer surface; the
\* state the event met is kept with the call
configure_panel_layer(w, h) ==
    /\ panel = "running"
    /\ layer
    /\ space_event' = AfterConfigure(space_event, w, h)
    /\ last_call' = Call("configure_panel_layer", <<w, h>>, NoSeat,
                         {<<"met", space_event>>}, "Ok")
    /\ UNCHANGED <<popups, next_popup, layer, positioner_version,
                   s_hovered_surface, s_focused_surface, c_hovered_surface,
                   dismissed>>
    /\ UNCHANGED <<config, output, dimensions, is_dirty, layer_id,
                   requested_size, space_outputs>>
    /\ UNCHANGED <<applet_vars, workspace_vars, watch_vars>>

\* the handling of the host's closed notification
close_panel_layer ==
    /\ panel = "running"
    /\ layer
    /\ space_event' = AfterClosed(space_event)
    /\ last_call' = Call("close_panel_layer", 0, NoSeat, {}, "Ok")
    /\ UNCHANGED <<popups, next_popup, layer, positioner_version,
                   s_hovered_surface, s_focused_surface, c_hovered_surface,
                   dismissed>>
    /\ UNCHANGED <<config, output, dimensions, is_dirty, layer_id,
                   requested_size, space_outputs>>
    /\ UNCHANGED <<applet_vars, workspace_vars, watch_vars>>

\* ---------------------------------------------------- configuration watching
\* the panel instances the configuration can name
Names == {"panel", "dock"}

\* the entries of config.config_list when watch_config is called
StartupEntries == {"panel"}

\* bound on the messages waiting in the channel
MaxUpdates == 2

\* bound on the length of an entries list
MaxEntries == 2

EntryLists == UNION {[1..n -> Names] : n \in 0..MaxEntries}

\* the sets of changed keys a notification carries
KeySets == {<<"opacity">>, <<"size">>, <<"opacity", "size">>}

\* CosmicPanelConfig::cosmic_config(&entry) fails; it succeeds but the second
\* cosmic_config or the watch fails (`.expect`); all succeed
LoadOutcomes == {"err", "watch_failed", "ok"}

\* enum ConfigUpdate
Entries(entries) == [kind |-> "Entries", name |-> "", entries |-> entries]
EntryChanged(name) == [kind |-> "EntryChanged", name |-> name, entries |-> <<>>]
Opacity(name) == [kind |-> "Opacity", name |-> name, entries |-> <<>>]
NoUpdate == [kind |-> "none", name |-> "", entries |-> <<>>]

WatchLog(op, name, keys, readable, ret) ==
    [op |-> op, name |-> name, keys |-> keys, readable |-> readable, ret |-> ret]

\* the callback of a watcher installed by watch_config at start-up: the
\* message it sends, NoUpdate when the opacity cannot be read
StartupWatcher(name, keys, readable) ==
    IF Len(keys) = 1 /\ keys[1] = "opacity"
    THEN IF readable THEN Opacity(name) ELSE NoUpdate
    ELSE EntryChanged(name)

\* the callback of a watcher installed by the Entries handler
AddedWatcher(name, keys, readable) == EntryChanged(name)

\* the configuration of instance `name` changed in `keys`
entry_notify(name, keys, readable) ==
    LET m == IF watchers[name] = "startup"
             THEN StartupWatcher(name, keys, readable)
             ELSE AddedWatcher(name, keys, readable)
    IN  /\ watch_log.ret # "panic"
        /\ watchers[name] # "none"
        /\ Len(entries_rx) < MaxUpdates
        /\ entries_rx' = IF m = NoUpdate THEN entries_rx ELSE Append(entries_rx, m)
        /\ watch_log' = WatchLog("notify", name, keys, readable, m.kind)
        /\ UNCHANGED <<config_list, watchers>>
        /\ UNCHANGED <<popup_vars, applet_vars, output_vars, workspace_vars>>

\* the callback of the entries watcher: the list of instances changed
entries_notify(entries, readable) ==
    /\ watch_log.ret # "panic"
    /\ Len(entries_rx) < MaxUpdates
    /\ entries_rx' = IF readable THEN Append(entries_rx, Entries(entries))
                     ELSE entries_rx
    /\ watch_log' = WatchLog("entries", "", <<>>, readable,
                             IF readable THEN "Entries" ELSE "none")
    /\ UNCHANGED <<config_list, watchers>>
    /\ UNCHANGED <<popup_vars, applet_vars, output_vars, workspace_vars>>

\* the entries not in config_list, in the order of the message
ToUpdate(entries, cl) == SelectSeq(entries, LAMBDA c : c \notin cl)

\* index of the first entry of to_update whose load fails, 0 if none
FailedAt(to_update, load) ==
    Position([i \in 1..Len(to_update) |-> load[to_update[i]] # "ok"])

\* the entries of to_update the loop gets through
Loaded(to_update, load) ==
    {to_update[i] : i \in 1..(IF FailedAt(to_update, load) = 0 THEN Len(to_update)
                              ELSE FailedAt(to_update, load) - 1)}

\* how the loop over to_update ends: through, by `return`, by a panic
LoopEnd(to_update, load) ==
    IF FailedAt(to_update, load) = 0 THEN "done"
    ELSE IF load[to_update[FailedAt(to_update, load)]] = "err" THEN "returned"
    ELSE "panic"

\* update_space for each of `names`: the instances are configured
UpdateSpace(cl, names) == cl \cup names

\* remove_space for each of `names`
RemoveSpace(cl, names) == cl \ names

\* the configured instances the message does not name
ToRemove(cl, entries) == {c \in cl : c \notin Range(entries)}

\* config_list after an Entries message: the removal follows the loop and is
\* reached only if the loop got through
AfterEntries(cl, entries, load) ==
    LET added == UpdateSpace(cl, Loaded(ToUpdate(entries, cl), load))
    IN  IF LoopEnd(ToUpdate(entries, cl), load) = "done"
        THEN RemoveSpace(added, ToRemove(added, entries))
        ELSE added

\* config_list after an EntryChanged message
AfterEntryChanged(cl, name, load) ==
    IF load[name] = "err" THEN cl ELSE UpdateSpace(cl, {name})

\* the event source takes the next message from the channel
handle_update(load) ==
    LET m == Head(entries_rx)
    IN  /\ watch_log.ret # "panic"
        /\ entries_rx # <<>>
        /\ entries_rx' = Tail(entries_rx)
        /\ config_list' =
               IF m.kind = "Entries" THEN AfterEntries(config_list, m.entries, load)
               ELSE IF m.kind = "EntryChanged"
               THEN AfterEntryChanged(config_list, m.name, load)
               ELSE config_list
        /\ watchers' =
               IF m.kind = "Entries"
               THEN [n \in Names |->
                        IF n \in Loaded(ToUpdate(m.entries, config_list), load)
                        THEN "added" ELSE watchers[n]]
               ELSE watchers
        /\ watch_log' =
               WatchLog("handle", m.name, <<>>, TRUE,
                        IF m.kind = "Entries"
                        THEN LoopEnd(ToUpdate(m.entries, config_list), load)
                        ELSE IF m.kind = "EntryChanged" /\ load[m.name] = "err"
                        THEN "returned" ELSE "done")
        /\ UNCHANGED <<popup_vars, applet_vars, output_vars, workspace_vars>>

\* --------------------------------------------------------- specification
NoCall == Call("none", 0, NoSeat, {}, "Ok")

\* the popup, focus and applet state after construction
InitCommon ==
    /\ popups = <<>>
    /\ next_popup = 1
    /\ positioner_version \in {2, 3}
    /\ s_hovered_surface = <<>>
    /\ s_focused_surface = <<>>
    /\ c_hovered_surface = <<>>
    /\ dismissed = {}
    /\ last_call = NoCall
    /\ clients = [l \in Lists |-> <<>>]
    /\ lock = [l \in Lists |-> {}]
    /\ handler = [a \in Applets |-> Idle("unspawned")]
    /\ reader = [pc |-> "idle", held |-> 0, client |-> NoClient, result |-> "None"]
    /\ removed = {}
    /\ panel = "running"
    /\ space_outputs = {}
    /\ workspace_groups = NoGroups
    /\ maximized_applied = <<>>
    /\ config_list = StartupEntries
    /\ watchers = [n \in Names |-> IF n \in StartupEntries THEN "startup" ELSE "none"]
    /\ entries_rx = <<>>
    /\ watch_log = WatchLog("none", "", <<>>, TRUE, "none")

\* a panel configured for a named output and bound to it
Init ==
    /\ InitCommon
    /\ config = [output |-> "eDP-1", layer_valid |-> TRUE, min |-> <<32, 30>>]
    /\ layer = TRUE
    /\ layer_id = 1
    /\ output = "eDP-1"
    /\ dimensions = <<32, 30>>
    /\ requested_size = <<32, 30>>
    /\ space_event = WaitConfigure(TRUE, <<32, 30>>)
    /\ is_dirty = TRUE

Next ==
    \/ \E created \in BOOLEAN : add_popup(next_popup, created)
    \/ \E c \in PopupIds : close_popup(c)
    \/ \E c \in PopupIds : configure_popup(c)
    \/ \E p \in PopupIds, sent \in BOOLEAN : reposition_popup(p, sent)
    \/ \E seat \in PopupSeats : keyboard_leave(seat)
    \/ \E seat \in PopupSeats : pointer_leave(seat)
    \/ \E seat \in PopupSeats : handle_press(seat)
    \/ \E pt \in Points, seat \in PopupSeats, c \in HostSurfaces :
           update_pointer(pt, seat, c)
    \/ \E pt \in Points, seat \in PopupSeats, c \in HostSurfaces :
           pointer_enter(pt, seat, c)
    \/ \E seat \in PopupSeats, c \in {LayerSurface, OtherSurface, NoSurface} :
           client_hover(seat, c)

Spec == Init /\ [][Next]_vars

\* spawn_clients has not run
Unspawned == \A a \in Applets : handler[a].pc = "unspawned"

\* the desktop files the first spawn_clients call finds: at most one per
\* applet name, in any order (SpecSpawn has the lists with several)
RestartOrders ==
    {o \in Orders : \A i, j \in 1..Len(o) : o[i] = o[j] => i = j}

\* the applet records: spawn, process exits and restarts on the process
\* manager's executor, get_scale_factor on the main thread
NextRestart ==
    \/ \E outcome \in [Applets -> SpawnOutcomes], listener \in [Applets -> BOOLEAN],
          order \in RestartOrders :
           Unspawned /\ spawn_clients(outcome, listener, order)
    \/ \E a \in Applets, r \in BOOLEAN, listener \in BOOLEAN : on_exit(a, r, listener)
    \/ \E a \in Applets : exit_start(a)
    \/ \E a \in Applets : exit_need_fd(a)
    \/ \E a \in Applets, ok \in BOOLEAN : exit_await_fd(a, ok)
    \/ \E a \in Applets, ok \in BOOLEAN : exit_env_notif(a, ok)
    \/ \E a \in Applets, ok \in BOOLEAN : exit_fds(a, ok)
    \/ \E a \in Applets : exit_lock(a)
    \/ \E a \in Applets : exit_find(a)
    \/ \E a \in Applets : exit_write_ctx(a)
    \/ \E a \in Applets : exit_send_pair(a)
    \/ \E a \in Applets : exit_env_socket(a)
    \/ \E a \in Applets : remove_applet(a)
    \/ \E c \in KnownClients : reader_call(c)
    \/ reader_lock
    \/ reader_return

SpecRestart == Init /\ [][NextRestart]_vars

\* pointer and keyboard focus of two seats over the panel and one popup
FocusPopupIds == {1}

InitFocus ==
    /\ Init
    /\ positioner_version = 3

NextFocus ==
    \/ \E created \in BOOLEAN :
           next_popup \in FocusPopupIds /\ add_popup(next_popup, created)
    \/ \E c \in FocusPopupIds : close_popup(c)
    \/ \E seat \in Seats : keyboard_leave(seat)
    \/ \E seat \in Seats : pointer_leave(seat)
    \/ \E seat \in Seats : handle_press(seat)
    \/ \E pt \in Points, seat \in Seats, c \in HostSurfaces :
           update_pointer(pt, seat, c)
    \/ \E pt \in Points, seat \in Seats, c \in HostSurfaces :
           pointer_enter(pt, seat, c)
    \/ \E seat \in Seats, c \in {LayerSurface, OtherSurface, NoSurface} :
           client_hover(seat, c)

SpecFocus == InitFocus /\ [][NextFocus]_vars

\* binding a fresh panel to an output
InitOutput ==
    /\ InitCommon
    /\ positioner_version = 3
    /\ config \in Configs
    /\ layer = FALSE
    /\ layer_id = 0
    /\ output = NoOutput
    /\ dimensions = <<0, 0>>
    /\ requested_size = <<0, 0>>
    /\ space_event = NoEvent
    /\ is_dirty = FALSE

\* what the applets meet when they are spawned from new_output
BindOutcomes == {"launched", "empty_exec", "send_failed"}

NextOutput ==
    \/ \E c_output \in Outputs \cup {NoOutput}, region_ok \in BOOLEAN,
          outcome \in [Applets -> BindOutcomes], order \in Orders :
           new_output(c_output, region_ok, outcome, [a \in Applets |-> TRUE], order)
    \/ \E c_output \in Outputs : update_output(c_output)

SpecOutput == InitOutput /\ [][NextOutput]_vars

\* the host events of the layer surface of a bound panel
InitLayer ==
    /\ Init
    /\ positioner_version = 3

NextLayer ==
    \/ \E w \in ConfigureWidths, h \in ConfigureHeights : configure_layer(w, h)
    \/ close_layer
    \/ \E w \in ConfigureWidths, h \in ConfigureHeights : configure_panel_layer(w, h)
    \/ close_panel_layer

SpecLayer == InitLayer /\ [][NextLayer]_vars

\* spawn_clients called again and again on one panel
InitSpawn ==
    /\ Init
    /\ positioner_version = 3

NextSpawn ==
    \/ \E outcome \in [Applets -> SpawnOutcomes], listener \in [Applets -> BOOLEAN],
          order \in Orders :
           spawn_clients(outcome, listener, order)
    \/ \E c \in KnownClients : reader_call(c)
    \/ reader_lock
    \/ reader_return

SpecSpawn == InitSpawn /\ [][NextSpawn]_vars

\* what the first spawn_clients call of SpecLocks meets
LocksOutcome == [a \in Applets |-> "launched"]
LocksOrder == [i \in 1..2 |-> IF i = 1 THEN "app" ELSE "notif"]

InitLocks ==
    /\ Init
    /\ positioner_version = 3

\* the three users of the list mutexes: spawn_clients and get_scale_factor on
\* the main thread, the restart futures on the process manager's executor
NextLocks ==
    \/ Unspawned /\ spawn_clients(LocksOutcome, [a \in Applets |-> TRUE], LocksOrder)
    \/ \E a \in Applets, r \in BOOLEAN : on_exit(a, r, TRUE)
    \/ \E a \in Applets : exit_start(a)
    \/ \E a \in Applets : exit_need_fd(a)
    \/ \E a \in Applets, ok \in BOOLEAN : exit_await_fd(a, ok)
    \/ \E a \in Applets, ok \in BOOLEAN : exit_env_notif(a, ok)
    \/ \E a \in Applets, ok \in BOOLEAN : exit_fds(a, ok)
    \/ \E a \in Applets : exit_lock(a)
    \/ \E a \in Applets : exit_find(a)
    \/ \E a \in Applets : exit_write_ctx(a)
    \/ \E a \in Applets : exit_send_pair(a)
    \/ \E a \in Applets : exit_env_socket(a)
    \/ \E c \in KnownClients : reader_call(c)
    \/ reader_lock
    \/ reader_return
    \/ spawn_call
    \/ spawn_lock
    \/ spawn_bail

SpecLocks == InitLocks /\ [][NextLocks]_vars

\* workspace snapshots arriving at the container
InitWorkspace ==
    /\ Init
    /\ positioner_version = 3

NextWorkspace == \E groups \in Snapshots : update(groups)

SpecWorkspace == InitWorkspace /\ [][NextWorkspace]_vars

InitWatch ==
    /\ Init
    /\ positioner_version = 3

\* the watcher callbacks and the event source of watch_config
NextWatch ==
    \/ \E name \in Names, keys \in KeySets, readable \in BOOLEAN :
           entry_notify(name, keys, readable)
    \/ \E entries \in EntryLists, readable \in BOOLEAN :
           entries_notify(entries, readable)
    \/ \E load \in [Names -> LoadOutcomes] : handle_update(load)

SpecWatch == InitWatch /\ [][NextWatch]_vars

\* ----------------------------------------------------------- properties
\* a step of add_popup: only add_popup advances next_popup
AddPopupStep == next_popup' = next_popup + 1

\* C1: after any sequence of add_popup, close_popup, reposition_popup,
\* configure_popup, handle_press, keyboard_leave and update_pointer calls the
\* popup list of the panel holds at most one popup.
C1_AtMostOnePopup == Len(popups) <= 1

\* a popup was raised and is open after an earlier one had been dismissed
C1_Witness ==
    /\ Len(popups) = 1
    /\ last_call.op = "add_popup"
    /\ dismissed # {}

\* C2: add_popup for popup B while popup A is open leaves B as the open
\* popup of the panel, in state WaitConfigure.
C2_SecondPopupOpens ==
    [][(AddPopupStep /\ popups # <<>> /\ last_call'.ret = "Ok")
        => /\ Len(popups') = 1
           /\ popups'[1].s_surface = last_call'.arg
           /\ popups'[1].state = "WaitConfigure"]_vars

\* C3: add_popup called while popup A is open removes A from the popup list
\* within the call and sends A's embedded surface no configure.
C3_EvictedWithoutConfigure ==
    [][(AddPopupStep /\ popups # <<>>)
        => \A q \in OpenPopups :
              /\ q \notin OpenPopups'
              /\ q \notin Configured(last_call')]_vars

\* add_popup returned Ok with the list empty: it evicted the open popup
C3_Witness ==
    /\ last_call.op = "add_popup"
    /\ last_call.ret = "Ok"
    /\ popups = <<>>
    /\ dismissed # {}

\* C4: no call sends a configure to the embedded surface of a popup that
\* was dismissed before (removed by close_popup or evicted by add_popup).
C4_NoConfigureAfterDismiss ==
    \A p \in dismissed : p \notin Configured(last_call)

\* C5: configure_popup naming a popup that was removed before leaves the
\* popup list as it is: the popup is not inserted again and no other popup
\* changes.
C5_ConfigureAfterCloseIsNoOp ==
    [][(last_call'.op = "configure_popup" /\ last_call'.arg \in dismissed)
        => popups' = popups]_vars

\* a configure arrived for a dismissed popup while another popup is open
C5_Witness ==
    /\ last_call.op = "configure_popup"
    /\ last_call.arg \in dismissed
    /\ popups # <<>>

\* the restart of applet a swapped its record, which is still in its list
Swapped(a) == "swap" \in Range(handler[a].trace) /\ a \notin removed

\* C6: once a restart has completed, the record of the applet holds the
\* client created for the new transport: get_scale_factor answers with the
\* scale for the new client and with none for every replaced client.
C6_RestartedRecordHoldsNewClient ==
    \A a \in Applets :
        (handler[a].pc = "running" /\ Swapped(a))
        => /\ \E r \in Range(clients[ListOf(a)]) :
                  r.id = a /\ r.client = handler[a].c
           /\ ScaleFactor(clients, handler[a].c) = "Some(scale)"
           /\ \A k \in 0..(handler[a].exits - 1) :
                  ScaleFactor(clients, Client(a, k)) = "None"

\* get_scale_factor returned the scale for the client of a completed restart
C6_Witness ==
    \E a \in Applets :
        /\ handler[a].pc = "running"
        /\ Swapped(a)
        /\ reader.pc = "idle"
        /\ reader.client = handler[a].c
        /\ reader.result = "Some(scale)"

\* C7: a reader that holds the mutex of a slot list sees, in every record of
\* the list, the client and the security context of one and the same start.
C7_ReaderSeesWholeSwap ==
    \A l \in Lists :
        "main" \in lock[l] => \A r \in Range(clients[l]) : r.ctx.of = r.client

\* the reader holds the mutex of a list with a swapped record while the
\* restart of another applet is under way
C7_Witness ==
    \E l \in Lists :
        /\ "main" \in lock[l]
        /\ \E r \in Range(clients[l]) : r.client[2] > 0
        /\ \E a \in Applets : handler[a].pc \in {"lock", "find", "write_ctx"}

\* position of the first occurrence of event e in trace t, 0 if none
First(t, e) == Position([k \in 1..Len(t) |-> t[k] = e])

\* C8: in every restart update_process_fds and the update_process_env that
\* names the new transport are applied before the record is swapped.
C8_UpdatesBeforeSwap ==
    \A a \in Applets :
        LET t == handler[a].trace
        IN  First(t, "swap") # 0
            => /\ First(t, "update_process_fds") # 0
               /\ First(t, "update_process_fds") < First(t, "swap")
               /\ First(t, "update_process_env(WAYLAND_SOCKET)") # 0
               /\ First(t, "update_process_env(WAYLAND_SOCKET)") < First(t, "swap")

\* C9: the future of an exit that is not flagged for restart ends at once:
\* it logs no update and no message and leaves every record as it is.
C9_NoRestartNoAction ==
    [][\A a \in Applets :
          (handler[a].pc = "start" /\ ~handler[a].restarting
           /\ handler'[a] # handler[a])
          => /\ handler'[a].pc = "stopped"
             /\ handler'[a].trace = <<>>
             /\ clients' = clients]_vars

\* an applet stopped for good while the record of another one was swapped
C9_Witness ==
    \E a \in Applets :
        /\ handler[a].pc = "stopped"
        /\ handler[a].trace = <<>>
        /\ \E b \in Applets \ {a} : Swapped(b)

\* C10: after a failed record lookup the future sends no ClientSocketPair
\* and applies no further environment update.
C10_AbandonedAfterFailedLookup ==
    \A a \in Applets :
        LET t == handler[a].trace
        IN  First(t, "lookup_failed") # 0
            => /\ First(t, "ClientSocketPair") = 0
               /\ First(t, "update_process_env(WAYLAND_SOCKET)") = 0

\* C11: a spawn failure of one applet is contained: spawn_clients does not
\* abort the panel, and every applet whose launch meets no failure is
\* launched.
C11_SpawnFailureContained ==
    /\ panel = "running"
    /\ \A a \in Applets :
           handler[a].spawn = "launched" => handler[a].pc # "not_launched"

\* the entries of a seat in the hover list and in the keyboard-focus list
HoverEntries(seat) ==
    {i \in 1..Len(s_hovered_surface) : s_hovered_surface[i].seat_name = seat}
FocusEntries(seat) ==
    {i \in 1..Len(s_focused_surface) : s_focused_surface[i][2] = seat}

\* C12: after any sequence of update_pointer, pointer_enter, pointer_leave,
\* keyboard_leave and handle_press calls over any seats, the hover list and
\* the keyboard-focus list each hold at most one entry per seat.
C12_OneEntryPerSeat ==
    \A seat \in Seats :
        /\ Cardinality(HoverEntries(seat)) <= 1
        /\ Cardinality(FocusEntries(seat)) <= 1

\* both seats hover and hold the keyboard focus, the second seat after the
\* first one moved again
C12_Witness ==
    /\ \A seat \in Seats : HoverEntries(seat) # {} /\ FocusEntries(seat) # {}
    /\ last_call.op = "update_pointer"
    /\ last_call.seat = s_hovered_surface[1].seat_name
    /\ last_call.ret # NoFocus

\* a step of update_pointer or pointer_enter
UpdatePointerStep == last_call'.op = "update_pointer"

\* the host surface is the layer surface or the host surface of an open popup
OnPanel(c_surface) ==
    \/ layer /\ c_surface = LayerSurface
    \/ \E q \in Range(popups) : PopupSurface(q.c_popup) = c_surface

\* C13: update_pointer for a seat on a host surface that is neither an open
\* popup's host surface nor the layer surface leaves no hover entry of that
\* seat, whether it pointed at a panel element or at a popup, and returns
\* no focus.
C13_ForeignSurfaceClearsHover ==
    [][(UpdatePointerStep /\ ~OnPanel(last_call'.arg))
       => /\ \A i \in 1..Len(s_hovered_surface') :
                 s_hovered_surface'[i].seat_name # last_call'.seat
          /\ last_call'.ret = NoFocus]_vars

\* the hover entries of a seat in a hover list
EntriesOf(hov, seat) == {h \in Range(hov) : h.seat_name = seat}

\* C14: update_pointer on the layer surface at coordinates under no element,
\* for a seat that had a hover entry, removes that seat's entry, returns
\* none and leaves the entries of the other seats in place; a handle_press
\* for that seat that follows forwards to no surface.
C14_NoElementClearsOwnHover ==
    [][\A pt \in Points, seat \in Seats :
          (/\ ElementUnder(pt) = 0
           /\ EntriesOf(s_hovered_surface, seat) # {}
           /\ update_pointer(pt, seat, LayerSurface))
          => /\ EntriesOf(s_hovered_surface', seat) = {}
             /\ last_call'.ret = NoFocus
             /\ \A other \in Seats \ {seat} :
                    EntriesOf(s_hovered_surface', other)
                        = EntriesOf(s_hovered_surface, other)
             /\ PressReturn(c_hovered_surface', s_hovered_surface', seat)
                    = NoSurface]_vars

\* a seat that hovers the layer surface and holds the focus it got over a
\* panel element has just been moved off every element, while the other
\* seat still hovers an element
C14_Witness ==
    /\ last_call.op = "update_pointer"
    /\ last_call.arg = LayerSurface
    /\ last_call.ret = NoFocus
    /\ EntriesOf(s_hovered_surface, last_call.seat) = {}
    /\ \E f \in Range(s_focused_surface) :
           f[2] = last_call.seat /\ f[1][1] = "window"
    /\ ClientHover(c_hovered_surface, last_call.seat) = LayerSurface
    /\ \E other \in Seats \ {last_call.seat} :
           EntriesOf(s_hovered_surface, other) # {}

\* C15: handle_press for a seat whose hovered host surface is the layer
\* surface, while a popup is open, dismisses the popup and still returns
\* the embedded surface hovered by that seat; when the hovered host surface
\* is not the layer surface, no popup is dismissed.
C15_PressOnPanelDismissesPopup ==
    [][\A seat \in Seats :
          (handle_press(seat) /\ ClientHover(c_hovered_surface, seat) # NoSurface)
          => /\ (ClientHover(c_hovered_surface, seat) = LayerSurface /\ popups # <<>>)
                => /\ popups' = <<>>
                   /\ OpenPopups \subseteq dismissed'
                   /\ \A h \in EntriesOf(s_hovered_surface, seat) :
                          last_call'.ret = h.surface
             /\ ClientHover(c_hovered_surface, seat) # LayerSurface
                => popups' = popups /\ dismissed' = dismissed]_vars

\* a press of a seat that hovers the layer surface returned the embedded
\* surface under the seat and left no popup open after one had been raised
C15_Witness ==
    /\ last_call.op = "handle_press"
    /\ ClientHover(c_hovered_surface, last_call.seat) = LayerSurface
    /\ last_call.ret # NoSurface
    /\ popups = <<>>
    /\ dismissed # {}

\* the keyboard-focus entries of a seat in a focus list
FocusOf(foc, seat) == {f \in Range(foc) : f[2] = seat}

C17_LeaveClosesPopup ==
    [][\A seat \in Seats :
          (/\ keyboard_leave(seat)
           /\ FocusOf(s_focused_surface, seat) # {}
           /\ popups # <<>>)
          => /\ popups' = <<>>
             /\ OpenPopups \subseteq dismissed'
             /\ FocusOf(s_focused_surface', seat) = {}]_vars

\* the seat that hovers the popup, and got keyboard focus with it, has left:
\* the popup is dismissed and the seat holds no focus
C17_Witness ==
    /\ last_call.op = "keyboard_leave"
    /\ popups = <<>>
    /\ dismissed # {}
    /\ FocusOf(s_focused_surface, last_call.seat) = {}
    /\ \E h \in EntriesOf(s_hovered_surface, last_call.seat) :
           h.surface[1] = "popup" /\ h.surface[2] \in dismissed

\* C18: keyboard_leave(seat) removes exactly the focus entries whose seat
\* name is the passed seat and leaves the entries of the other seats as
\* they are; it closes popups only if an entry of the passed seat was
\* removed.
C18_LeaveRemovesOwnEntriesOnly ==
    [][\A seat \in Seats :
          keyboard_leave(seat)
          => /\ Range(s_focused_surface')
                    = Range(s_focused_surface) \ FocusOf(s_focused_surface, seat)
             /\ Len(s_focused_surface')
                    = Len(s_focused_surface)
                        - Cardinality(FocusOf(s_focused_surface, seat))
             /\ FocusOf(s_focused_surface, seat) = {}
                => popups' = popups /\ dismissed' = dismissed]_vars

\* one seat has left and lost its focus entry, with the popup closed, while
\* the other seat still holds its focus entry
C18_Witness ==
    /\ last_call.op = "keyboard_leave"
    /\ FocusOf(s_focused_surface, last_call.seat) = {}
    /\ \E other \in Seats \ {last_call.seat} : FocusOf(s_focused_surface, other) # {}
    /\ EntriesOf(s_hovered_surface, last_call.seat) # {}
    /\ popups = <<>>
    /\ dismissed # {}

\* C19: reposition_popup submits the reposition request to the host and
\* sends repositioned(token) to the embedded client only if the positioner
\* has version 3 or higher; below version 3 neither is sent.
C19_RepositionNeedsVersion3 ==
    last_call.op = "reposition_popup"
    => \A e \in last_call.effects :
           e[1] \in {"host_reposition", "repositioned"} => positioner_version >= 3

\* an open popup was repositioned with a version 3 positioner: the host got
\* the reposition request and the client the repositioned event
C19_Witness ==
    /\ last_call.op = "reposition_popup"
    /\ positioner_version >= 3
    /\ last_call.arg \in OpenPopups
    /\ {<<"host_reposition", last_call.arg>>, <<"repositioned", last_call.arg>>}
           \subseteq last_call.effects

\* C20: with a positioner version below 3 reposition_popup is a no-op: it
\* changes no host-side popup state (window geometry, positioner, commit)
\* and no pending state of the embedded popup, and sends no configure.
C20_RepositionBelow3IsNoOp ==
    (last_call.op = "reposition_popup" /\ positioner_version < 3)
    => last_call.effects = {}

\* a step of new_output
NewOutputStep == last_call'.op = "new_output"

\* the offered output (NoOutput when none is passed) does not satisfy the
\* output selector of the configuration
SelectorRefuses(cfg, c_output) ==
    IF c_output # NoOutput THEN cfg.output # c_output ELSE cfg.output # "Active"

\* no applet has been spawned
NothingSpawned ==
    /\ \A a \in Applets : handler[a].pc = "unspawned"
    /\ \A l \in Lists : clients[l] = <<>>

\* C21: when the output offered to new_output does not satisfy the panel's
\* output selector, or the configured layer is invalid, new_output returns
\* an error and binds nothing: a panel without layer surface, output
\* binding, pending WaitConfigure event and applets is left without them.
C21_RefusedBindingCreatesNothing ==
    [][(/\ NewOutputStep
        /\ output = NoOutput
        /\ SelectorRefuses(config, last_call'.arg) \/ ~config.layer_valid)
       => /\ last_call'.ret = "Err"
          /\ output' = NoOutput
          /\ UNCHANGED <<layer, layer_id, space_event, clients, handler>>
          /\ layer_id = 0
             => /\ ~layer'
                /\ space_event'.kind # "WaitConfigure"
                /\ NothingSpawned']_vars

\* new_output was refused for an offered output, which was mapped into
\* the space, and the panel is as unbound as before
C21_Witness ==
    /\ last_call.op = "new_output"
    /\ last_call.ret = "Err"
    /\ last_call.arg \in space_outputs
    /\ ~layer
    /\ output = NoOutput
    /\ space_event = NoEvent
    /\ NothingSpawned

\* C22: new_output on a panel that already holds a layer surface returns an
\* error and leaves the layer surface, the output binding and the pending
\* space event unchanged, for every output selector and whether or not an
\* output is passed.
C22_SecondBindingRefused ==
    [][(NewOutputStep /\ layer)
       => /\ last_call'.ret = "Err"
          /\ UNCHANGED <<layer, layer_id, output, space_event>>]_vars

\* C23: a successful new_output moves the panel to WaitConfigure: on return
\* the panel holds a layer surface, its space event is WaitConfigure with
\* first = true and the width and height requested from the host, which are
\* the panel's recorded dimensions, and the panel is marked dirty.
C23_BoundPanelWaitsForConfigure ==
    [][(NewOutputStep /\ last_call'.ret = "Ok")
       => /\ layer'
          /\ layer_id' = layer_id + 1
          /\ space_event' = [kind |-> "WaitConfigure", first |-> TRUE,
                             width |-> requested_size'[1],
                             height |-> requested_size'[2]]
          /\ requested_size' = dimensions'
          /\ is_dirty']_vars

\* a panel was bound by new_output and waits for its first configure
C23_Witness ==
    /\ last_call.op = "new_output"
    /\ last_call.ret = "Ok"
    /\ layer
    /\ layer_id = 1
    /\ space_event.kind = "WaitConfigure"
    /\ space_event.first
    /\ dimensions = config.min

\* C24: no launch message is sent while the layer surface is still waiting
\* for its first configure (space event WaitConfigure with first = true).
C24_NoLaunchBeforeFirstConfigure ==
    (space_event.kind = "WaitConfigure" /\ space_event.first)
    => \A a \in Applets : handler[a].pc # "running"

\* C28: once the layer surface has reached Quit, no later event, a queued
\* configure included, causes a further state transition of that surface.
C28_QuitIsTerminal ==
    [][(space_event.kind = "Quit" /\ layer_id' = layer_id)
       => space_event' = space_event]_vars

\* a configure arrived for a layer surface that had been closed after it
\* was configured, and the surface is still closed
C28_Witness ==
    /\ last_call.op = "configure_panel_layer"
    /\ last_call.arg = <<32, 42>>
    /\ \E e \in last_call.effects : e[1] = "met" /\ e[2].kind = "Quit"
    /\ space_event.kind = "Quit"
    /\ space_event.width = 42

\* C29: for a host configure on a layer surface each axis is handled on its
\* own: a dimension of 0 keeps the previously negotiated value of that
\* axis, a non-zero dimension replaces it.
C29_ZeroKeepsAxis ==
    [][\A w \in ConfigureWidths, h \in ConfigureHeights :
          (/\ configure_panel_layer(w, h)
           /\ space_event.kind \in {"WaitConfigure", "Configured"})
          => /\ space_event'.kind = "Configured"
             /\ space_event'.width = (IF w = 0 THEN space_event.width ELSE w)
             /\ space_event'.height = (IF h = 0 THEN space_event.height ELSE h)]_vars

\* a configure of 0x42 on a surface last negotiated at 32x30 gave 32x42
C29_Witness ==
    /\ last_call.op = "configure_panel_layer"
    /\ last_call.arg = <<0, 42>>
    /\ \E e \in last_call.effects :
           /\ e[1] = "met"
           /\ e[2].kind = "Configured"
           /\ e[2].width = 32
           /\ e[2].height = 30
    /\ space_event.kind = "Configured"
    /\ space_event.width = 32
    /\ space_event.height = 42

\* the future of applet a has been started and has not returned
InFlight(a) ==
    handler[a].pc \in {"start", "need_fd", "await_fd", "env_notif", "fds",
                       "lock", "find", "write_ctx", "send_pair", "env_socket"}

\* the points at which the future of applet a is suspended in an await
AtAwait(a) ==
    handler[a].pc \in {"need_fd", "await_fd", "env_notif", "fds", "send_pair",
                       "env_socket"}

\* C25: while the restart of the notifications applet waits for the one-shot
\* handle response it holds no slot-list lock, and the exit handling and
\* restart of any other applet can take its next step, up to and including
\* its record swap, unless the main thread holds the list at that moment.
C25_PendingRequestBlocksNobody ==
    \A n \in Applets :
        (IsNotificationApplet(n) /\ handler[n].pc = "await_fd")
        => /\ \A l \in Lists : n \notin lock[l]
           /\ \A a \in Applets \ {n} :
                  (InFlight(a) /\ lock[ListOf(a)] \subseteq {a})
                  => ENABLED exit_step(a)

\* the notifications applet waits for its handle while another applet is in
\* the middle of its record swap, holding the lock of its list
C25_Witness ==
    \E n \in Applets, a \in Applets :
        /\ IsNotificationApplet(n)
        /\ handler[n].pc = "await_fd"
        /\ a # n
        /\ handler[a].pc = "write_ctx"
        /\ a \in lock[ListOf(a)]
        /\ \E i \in 1..Len(clients[ListOf(a)]) :
               clients[ListOf(a)][i].client = handler[a].c

\* C26: the transport swap of a restart is applied in the event-loop turn in
\* which the applet's exit notification is processed: between the exit
\* notification and the swap every step taken is a step of that restart.
C26_SwapInTurnOfExit ==
    [][\A a \in Applets :
          handler[a].pc \in {"start", "need_fd", "await_fd", "env_notif", "fds",
                             "lock", "find"}
          => handler'[a] # handler[a]]_vars

\* C27: a slot-list lock is never held across an awaited step: at every
\* await point of the restart handler (one-shot request, update_process_env,
\* update_process_fds, message send) the handler holds no slot-list lock.
C27_NoLockAcrossAwait ==
    \A a \in Applets : AtAwait(a) => \A l \in Lists : a \notin lock[l]

\* a restart has swapped its record and is suspended in the message send
\* with the lock of its list free again
C27_Witness ==
    \E a \in Applets :
        /\ handler[a].pc = "send_pair"
        /\ \E i \in 1..Len(handler[a].trace) : handler[a].trace[i] = "swap"
        /\ lock[ListOf(a)] = {}

\* the number of apply_maximized calls for output o in a call sequence
Calls(applied, o) == Cardinality({i \in 1..Len(applied) : applied[i] = o})

\* C30: on each workspace snapshot, update replaces the stored workspace
\* groups with the snapshot and calls apply_maximized exactly once for every
\* known output whose membership in the maximized-outputs set differs
\* between before and after the replacement, and for no other output.
C30_ApplyMaximizedOnFlip ==
    [][\A groups \in Snapshots :
          update(groups)
          => /\ workspace_groups' = groups
             /\ \A o \in GroupOutputs :
                    Calls(maximized_applied', o) =
                        (IF /\ o \in Range(KnownOutputs)
                            /\ (o \in MaximizedOutputs(workspace_groups))
                                   # (o \in MaximizedOutputs(groups))
                         THEN 1 ELSE 0)]_vars

\* a snapshot left one known output maximized as it was and took the
\* maximized state from the other: only the other got apply_maximized
C30_Witness ==
    /\ maximized_applied = <<"HDMI-1">>
    /\ MaximizedOutputs(workspace_groups) = {"eDP-1", "DP-9"}

\* C32: update_pointer on the host surface of an open popup resolves hover,
\* for that seat, to the popup's embedded surface with host-local position
\* equal to the popup rectangle origin and embedded-local position equal to
\* the rectangle origin minus the popup's geometry origin, and sets the
\* seat's keyboard focus to the same embedded surface.
C32_PopupHoverResolution ==
    [][\A q \in Range(popups) :
          (UpdatePointerStep /\ last_call'.arg = PopupSurface(q.c_popup))
          => /\ EntriesOf(s_hovered_surface', last_call'.seat) =
                    {[surface |-> PopupSurface(q.s_surface),
                      seat_name |-> last_call'.seat,
                      c_pos |-> q.rectangle,
                      s_pos |-> <<q.rectangle[1] - PopupGeoLoc(q.s_surface)[1],
                                  q.rectangle[2] - PopupGeoLoc(q.s_surface)[2]>>]}
             /\ FocusOf(s_focused_surface', last_call'.seat) =
                    {<<PopupSurface(q.s_surface), last_call'.seat>>}
             /\ last_call'.ret \in EntriesOf(s_hovered_surface', last_call'.seat)]_vars

\* a seat that hovered a panel element has moved onto the open popup: its
\* hover entry and its keyboard focus are on the popup's embedded surface
C32_Witness ==
    /\ last_call.op = "update_pointer"
    /\ last_call.arg[1] = "popup"
    /\ last_call.arg[2] \in OpenPopups
    /\ last_call.ret.surface = PopupSurface(last_call.arg[2])
    /\ last_call.ret.s_pos # last_call.ret.c_pos
    /\ <<PopupSurface(last_call.arg[2]), last_call.seat>> \in Range(s_focused_surface)
    /\ \E other \in Seats \ {last_call.seat} :
           \E h \in EntriesOf(s_hovered_surface, other) : h.surface[1] = "window"

\* a step of spawn_clients: the main thread is not in get_scale_factor
SpawnStep ==
    /\ last_call'.op = "spawn_clients"
    /\ reader' = reader
    /\ lock' = lock

\* C33: across any sequence of spawn_clients calls on one panel at most one
\* launch message is emitted per applet record, even when several desktop
\* files match the record's identifier; a spawn_clients call made when a
\* slot list is already populated fails with an error and leaves the three
\* slot lists unchanged.
C33_AtMostOneLaunch ==
    [][/\ \A a \in Applets : handler'[a].launches <= 1
       /\ (SpawnStep /\ \E l \in Lists : clients[l] # <<>>)
          => /\ last_call'.ret = "Err"
             /\ clients' = clients
             /\ \A a \in Applets : handler'[a].launches = handler[a].launches]_vars

\* spawn_clients was called again after it had launched every applet: the
\* call failed and each applet has had one launch message
C33_Witness ==
    /\ last_call.op = "spawn_clients"
    /\ last_call.ret = "Err"
    /\ \A a \in Applets : handler[a].launches = 1 /\ handler[a].pc = "running"

\* C34: the exit handler allocates a fresh transport and a new
\* security-context listener only when the exit is flagged for restart; an
\* exit not flagged for restart creates neither.
C34_NoTransportWithoutRestart ==
    \A a \in Applets :
        (handler[a].exits > 0 /\ ~handler[a].restarting)
        => /\ handler[a].c = NoClient
           /\ ~handler[a].ctx.listener

\* the events of a trace
Events(t) == {t[i] : i \in 1..Len(t)}

\* the step of the future of applet a is the success of the one-shot answer
\* or of an update before the swap
UpdateSucceeds(a) ==
    \/ handler[a].pc = "await_fd" /\ handler'[a].pc = "env_notif"
    \/ /\ handler[a].pc = "env_notif"
       /\ handler'[a].pc = "fds"
       /\ handler'[a].trace =
              Append(handler[a].trace, "update_process_env(COSMIC_NOTIFICATIONS)")
    \/ /\ handler[a].pc = "fds"
       /\ handler'[a].pc = "lock"
       /\ handler'[a].trace = Append(handler[a].trace, "update_process_fds")

\* C35: if, during the restart of the notifications applet, the one-shot
\* handle request fails, or a handle-set or environment update before the
\* swap fails, the restart stops there: the applet record keeps its previous
\* client and security context and no ClientSocketPair message is sent.
C35_FailedRestartKeepsRecord ==
    [][\A a \in Applets :
          (/\ IsNotificationApplet(a)
           /\ handler[a].pc \in {"await_fd", "env_notif", "fds"}
           /\ handler'[a] # handler[a]
           /\ ~UpdateSucceeds(a))
          => /\ handler'[a].pc = "running"
             /\ clients' = clients
             /\ \A r \in Range(clients'[ListOf(a)]) :
                    r.id = a => r.client # handler[a].c /\ r.ctx # handler[a].ctx
             /\ Events(handler'[a].trace) \cap {"swap", "ClientSocketPair"} = {}]_vars

\* the restart of the notifications applet got its handle and updated the
\* environment, then update_process_fds failed: the future has returned and
\* the record holds the client of the first start
C35_Witness ==
    \E a \in Applets :
        /\ IsNotificationApplet(a)
        /\ handler[a].pc = "running"
        /\ handler[a].restarting
        /\ Events(handler[a].trace) =
               {"NeedNewNotificationFd", "update_process_env(COSMIC_NOTIFICATIONS)"}
        /\ \E r \in Range(clients[ListOf(a)]) : r.id = a /\ r.client = Client(a, 0)

\* C36: in every reachable state no hover entry and no keyboard-focus entry
\* refers to the embedded surface of a popup that is no longer in the popup
\* set, whether it was closed by close_popup or evicted by add_popup.
C36_NoStalePopupEntries ==
    /\ \A h \in Range(s_hovered_surface) :
           h.surface[1] = "popup" => h.surface[2] \in OpenPopups
    /\ \A f \in Range(s_focused_surface) :
           f[1][1] = "popup" => f[1][2] \in OpenPopups

\* C37: whenever handle_press returns none for a seat, that seat holds no
\* keyboard-focus entry on return, also when the seat has a client-side hover
\* entry but no embedded-side hover entry.
C37_NoFocusAfterPressNone ==
    [][(last_call'.op = "handle_press" /\ last_call'.ret = NoSurface)
       => FocusOf(s_focused_surface', last_call'.seat) = {}]_vars

\* C40: a new_output call that returns an error leaves the whole state of the
\* panel unchanged, the output mapping of its element space included.
C40_FailedBindingChangesNothing ==
    [][(NewOutputStep /\ last_call'.ret = "Err")
       => UNCHANGED <<config, output, space_event, dimensions, is_dirty,
                      layer_id, requested_size, layer, clients,
                      space_outputs>>]_vars

\* the users of the list mutexes
Parties == Applets \cup {"main"}

\* the list mutex party x is blocked on, if any
Waits(x) ==
    IF x = "main"
    THEN IF reader.pc = "locking" /\ reader.held < Len(ReaderOrder)
         THEN {ReaderOrder[reader.held + 1]} \cap {l \in Lists : lock[l] # {}}
         ELSE IF reader.pc = "spawning" /\ reader.held < Len(SpawnOrder)
         THEN {SpawnOrder[reader.held + 1]} \cap {l \in Lists : lock[l] # {}}
         ELSE {}
    ELSE IF handler[x].pc = "lock"
         THEN {NextLock(x)} \cap {l \in Lists : lock[l] # {}}
         ELSE {}

\* C38: no interleaving of spawn_clients, get_scale_factor and the restart
\* handlers deadlocks on the three slot-list locks: in no reachable state do
\* two of them each hold a lock the other waits for, and none waits for a
\* lock it holds itself.
C38_NoLockCycle ==
    \A x \in Parties :
        /\ Waits(x) \cap HeldBy(x) = {}
        /\ \A y \in Parties \ {x} :
               ~(Waits(x) \cap HeldBy(y) # {} /\ Waits(y) \cap HeldBy(x) # {})

\* spawn_clients, called again, holds the left list and waits for the center
\* one, which the restart of the notifications applet holds in the middle of
\* its swap, while the restart of the other applet waits for the left list
C38_Witness ==
    /\ reader.pc = "spawning"
    /\ HeldBy("main") = {"left"}
    /\ Waits("main") = {"center"}
    /\ \E n \in Applets :
           /\ handler[n].pc = "write_ctx"
           /\ HeldBy(n) = {"center"}
           /\ \E a \in Applets \ {n} : Waits(a) = {"left"}

\* a step of a watcher callback of one instance
NotifyStep ==
    /\ watch_log'.op = "notify"
    /\ watch_log' # watch_log \/ entries_rx' # entries_rx

\* C31: for every watched panel instance, present at start-up or added later
\* through an entries update, a change notification whose only changed key is
\* "opacity" produces an Opacity update for that instance (when the opacity
\* can be read) and no EntryChanged; any other set of changed keys produces
\* EntryChanged.
C31_OpacityIsNotAReload ==
    [][NotifyStep =>
          IF watch_log'.keys = <<"opacity">>
          THEN /\ entries_rx' # Append(entries_rx, EntryChanged(watch_log'.name))
               /\ watch_log'.readable
                  => entries_rx' = Append(entries_rx, Opacity(watch_log'.name))
          ELSE entries_rx' = Append(entries_rx, EntryChanged(watch_log'.name))]_vars

\* a step of the event source that handles an Entries message to the end of
\* the handler or to its `return`
EntriesStep ==
    /\ entries_rx # <<>>
    /\ entries_rx' = Tail(entries_rx)
    /\ Head(entries_rx).kind = "Entries"
    /\ watch_log'.ret # "panic"

\* C39: handling an Entries(E) update removes every configured instance whose
\* name is not in E and adds every name in E that was not configured before,
\* whatever the outcome of loading the configuration of the added entries.
C39_EntriesReconciled ==
    [][EntriesStep =>
          /\ config_list' \cap (config_list \ Range(Head(entries_rx).entries)) = {}
          /\ Range(Head(entries_rx).entries) \subseteq config_list']_vars

====
